---- MODULE Spec2Model ----
(***************************************************************************)
(* A model of claude_hooks/ghcid_feedback.py: one invocation of main() at  *)
(* a time (invocations follow each other), running against a file system   *)
(* that the external watch process (ghcid) and the user change             *)
(* concurrently.                                                           *)
(*                                                                         *)
(* Time is counted in ticks of one polling interval (time.sleep(0.1)), so  *)
(* one time unit (second) is PollsPerUnit ticks.  The statements of a run   *)
(* take no time: the clock advances while a run sleeps in the wait loop    *)
(* and while no run is under way.                                          *)
(***************************************************************************)
EXTENDS Integers, Sequences, FiniteSets, TLC

\* ------------------------------------------------------------ constants
\* wait_for_output_update(output_file, timeout=20)
Timeout == 20
\* script_start_time - output_file_mtime < 3
FreshWindow == 3
\* time.sleep(0.1): ten polls per time unit
PollsPerUnit == 10
\* initial_mtime = None
NoneMtime == -1

TimeoutTicks == Timeout * PollsPerUnit
FreshTicks == FreshWindow * PollsPerUnit

\* ---------------------------------------------------------------- bounds
\* invocations of main() in one behaviour
MaxRuns == 2
\* clock ticks while no run is under way
MaxTicks == 1
\* changes made by the environment (report writes and removals, file
\* saves and removals, process exits)
MaxEnv == 1
\* the environment acts on a polling run only in the first and in the last
\* EnvWindow iterations of the wait loop
EnvWindow == 1
\* the clock when the model starts
StartClock == 100

\* ----------------------------------------------------------------- texts
\* A text is a sequence of characters.
AllGoodMarker == <<"A", "l", "l", " ", "g", "o", "o", "d">>
OkText == AllGoodMarker \o <<" ", "(", "1", " ", "m", "o", "d", "u", "l", "e", ")">>
ErrText == <<"1", " ", "e", "r", "r", "o", "r", ":", " ", "L", "i", "b", ".", "h", "s">>
PaddedOkText == <<" ", "\n">> \o AllGoodMarker \o <<"\n">>
LowerText == <<"a", "l", "l", " ", "g", "o", "o", "d">>
MidText == <<"N", "o", "t", " ">> \o AllGoodMarker
EmptyText == <<>>
\* what the watch process may write
Texts == {OkText, ErrText, PaddedOkText, LowerText, MidText, EmptyText}
\* what the report holds when the model starts
InitTexts == {OkText, ErrText}

Whitespace == {" ", "\t", "\n", "\r"}

RECURSIVE LStrip(_)
LStrip(s) == IF s # <<>> /\ Head(s) \in Whitespace THEN LStrip(Tail(s)) ELSE s

RECURSIVE RStrip(_)
RStrip(s) ==
    IF s # <<>> /\ s[Len(s)] \in Whitespace
    THEN RStrip(SubSeq(s, 1, Len(s) - 1))
    ELSE s

\* str.strip()
Strip(s) == RStrip(LStrip(s))

StartsWith(s, p) == Len(s) >= Len(p) /\ SubSeq(s, 1, Len(p)) = p

\* re.search in place of re.match: the marker anywhere in the text
MatchUnanchored(out) ==
    \E i \in 1..Len(out) :
        /\ i + Len(AllGoodMarker) - 1 <= Len(out)
        /\ SubSeq(out, i, i + Len(AllGoodMarker) - 1) = AllGoodMarker

\* a pattern anchored at both ends: the marker and nothing after it
MatchExact(out) == out = AllGoodMarker

\* re.match(r"^All good.*", output): anchored at the start, case-sensitive;
\* ".*" also matches the empty rest.
MatchSuccess(out) == StartsWith(out, AllGoodMarker)

\* ------------------------------------------------------------ file system
FileOrder == <<"Lib.hs", "Main.hs">>
Files == {FileOrder[i] : i \in 1..Len(FileOrder)}
Pids == {1, 2, 3}

NoReport == [exists |-> FALSE, mtime |-> 0, text |-> EmptyText]
NoFile == [exists |-> FALSE, mtime |-> 0]

VARIABLES
    now,                 \* the clock (time.time()), in ticks
    report,              \* the report file: [exists, mtime, text]
    files,               \* the watched files: name -> [exists, mtime]
    pidFile,             \* the PID file: [kind: "absent" | "garbage" | "pid", pid]
    procs,               \* pid -> "none" | "alive" | "foreign"
    pc,                  \* the position of the run
    script_start_time,
    haskell_files,
    scan_i,              \* index of the for loop over haskell_files
    output_file_mtime,
    output_file_fresh,
    newer_haskell_files,
    file_updated,
    start_time,          \* wait_for_output_update's start_time
    initial_mtime,
    output,
    process_pid,         \* start_ghcid_if_needed's process.pid
    exitCode,            \* -1 while running
    stdout,
    stderr,
    \* history
    runs,                \* invocations started
    ticks,
    envSteps,
    path,                \* the decision path of the run
    hist,                \* what the run has seen and done
    \* concurrent callers of start_ghcid_if_needed
    calls                \* caller -> its position and what it has done

vars == <<now, report, files, pidFile, procs, pc, script_start_time,
          haskell_files, scan_i, output_file_mtime, output_file_fresh,
          newer_haskell_files, file_updated, start_time, initial_mtime,
          output, process_pid, exitCode, stdout, stderr, runs, ticks,
          envSteps, path, hist, calls>>

locals == <<script_start_time, haskell_files, scan_i, output_file_mtime,
            output_file_fresh, newer_haskell_files, file_updated, start_time,
            initial_mtime, output, process_pid>>

NoPidFile == [kind |-> "absent", pid |-> 0]
GarbagePidFile == [kind |-> "garbage", pid |-> 0]
PidFileOf(p) == [kind |-> "pid", pid |-> p]

\* The report is FreshWindow old (not fresh) or one tick younger (fresh); a
\* watched file is as old as the epoch, or as old as the younger report.
InitReportTimes == {StartClock - FreshTicks, StartClock - FreshTicks + 1}
InitFileTimes == {0, StartClock - FreshTicks + 1}

NoHist ==
    [waited |-> FALSE,        \* wait_for_output_update was entered
     waitResult |-> "none",   \* what it returned: "true" | "false"
     readDone |-> FALSE,      \* read_output_file was called
     readOk |-> FALSE,        \* ... and the open and read succeeded
     rawText |-> EmptyText,   \* ... and this is the text the file held
     classified |-> FALSE,    \* the re.match of line 153 was evaluated
     sawReport |-> FALSE,     \* os.path.exists(output_file) at line 110
     scanned |-> {},          \* files whose mtime line 119 read
     spawned |-> 0,           \* watch processes this run started
     pidWrites |-> 0,         \* writes of the PID file by this run
     pidSeen |-> "none",      \* what lines 43-50 found in the PID file
     fault |-> "none",        \* the unhandled exception that ended the run
     curWrites |-> 0,         \* report writes since this run started
     curDeleted |-> FALSE,    \* report removals since this run started
     curFile |-> FALSE,       \* watched-file changes since this run started
     waitDeleted |-> FALSE,   \* report removals since the wait was entered
     pollWrite |-> "no",      \* when a report write fell in the wait loop's polling
     prevFile |-> FALSE,      \* watched-file changes since the previous run started
     prevReport |-> FALSE,    \* report changes since the previous run started
     prevExit |-> -1,
     prevPath |-> "none"]

\* The callers of start_ghcid_if_needed that run at the same time against
\* one project, and what is recorded of a call.
Callers == {"a", "b"}
NotCalled ==
    [pc |-> "idle",          \* "idle" | "check" | "spawn" | "write" |
                             \* "returned" | "raised"
     process_pid |-> 0,      \* process.pid
     spawned |-> 0,          \* watch processes this call started
     pidWrites |-> 0,        \* writes of the PID file by this call
     writeSeq |-> 0,         \* the place of its write among all writes
     seen |-> "none",        \* what lines 43-50 found in the PID file
     after |-> {},           \* the calls that had ended when this one began
     firstAlive |-> FALSE]   \* at lines 43-50, a process started by a call
                             \* of "after" was running

\* What the file system holds when the model starts: either any report and
\* any watched files with no watch process registered, or any state of the
\* process registry with an empty project.
InitFiles ==
    /\ report \in {NoReport} \cup
           {[exists |-> TRUE, mtime |-> m, text |-> t] :
                m \in InitReportTimes, t \in InitTexts}
    /\ files \in [Files -> {NoFile} \cup
           {[exists |-> TRUE, mtime |-> m] : m \in InitFileTimes}]
    /\ pidFile = NoPidFile
    /\ procs = [p \in Pids |-> "none"]

InitRegistry ==
    /\ report = NoReport
    /\ files = [f \in Files |-> NoFile]
    /\ pidFile \in {GarbagePidFile, PidFileOf(1)}
    /\ procs \in {[p \in Pids |-> IF p = 1 THEN st ELSE "none"] :
                      st \in {"none", "alive", "foreign"}}

InitWorld ==
    /\ now = StartClock
    /\ InitFiles \/ InitRegistry
    /\ pc = "idle"
    /\ script_start_time = 0
    /\ haskell_files = <<>>
    /\ scan_i = 1
    /\ output_file_mtime = 0
    /\ output_file_fresh = FALSE
    /\ newer_haskell_files = <<>>
    /\ file_updated = FALSE
    /\ start_time = 0
    /\ initial_mtime = NoneMtime
    /\ output = EmptyText
    /\ process_pid = 0
    /\ exitCode = -1
    /\ stdout = <<>>
    /\ stderr = <<>>
    /\ ticks = 0
    /\ envSteps = 0
    /\ path = "none"
    /\ hist = NoHist
    /\ calls = [c \in Callers |-> NotCalled]

\* no invocation of the hook has been made
Init == InitWorld /\ runs = 0

\* the same states with one invocation of the hook left to follow
FairInit == InitWorld /\ runs = MaxRuns - 1

\* ----------------------------------------------------------- environment
\* An environment change in the middle of a run is the same change delayed
\* to the run's next step that reads what it changes (the clock stands still
\* in between), so a change is taken when no run is under way or right
\* before such a step.
Idle == pc \in {"idle", "done"}
WaitPcs == {"w_init", "w_poll", "w_sleep"}
PollPcs == {"w_poll", "w_sleep"}

\* while time.time() - start_time < timeout
WaitGuard(elapsed) == elapsed < TimeoutTicks

InEnvWindow ==
    \/ now - start_time < EnvWindow
    \/ now - start_time >= TimeoutTicks - EnvWindow

ReportEventOK ==
    \/ Idle
    \/ pc \in {"out_stat", "upd_stat", "w_init", "read"}
    \/ pc \in PollPcs /\ InEnvWindow
FileEventOK == Idle \/ pc \in {"walk", "scan"}
ProcEventOK == Idle \/ pc = "reg_check"

\* Time passes between runs.
Tick ==
    /\ Idle
    /\ ticks < MaxTicks
    /\ now' = now + 1
    /\ ticks' = ticks + 1
    /\ UNCHANGED <<report, files, pidFile, procs, pc, locals, exitCode,
                   stdout, stderr, runs, envSteps, path, hist>>
    /\ UNCHANGED calls

\* When a report write falls, for a run in the wait loop's polling: "polled"
\* when a poll follows it, "lastsleep" when it falls in the sleep after the
\* last poll, "expired" when the timeout has passed on the clock.
PollPhase ==
    IF ~WaitGuard(now - start_time) THEN "expired"
    ELSE IF pc = "w_sleep" /\ ~WaitGuard((now + 1) - start_time) THEN "lastsleep"
    ELSE "polled"

\* The watch process finishes a cycle and (over)writes the report.  Two
\* cycles do not end in the same tick.
WriteReport(t) ==
    /\ envSteps < MaxEnv
    /\ ReportEventOK
    /\ report.exists => report.mtime < now
    /\ report' = [exists |-> TRUE, mtime |-> now, text |-> t]
    /\ envSteps' = envSteps + 1
    /\ hist' = [hist EXCEPT !.curWrites = @ + 1,
                            !.prevReport = TRUE,
                            !.pollWrite = IF pc \in PollPcs THEN PollPhase ELSE @]
    /\ UNCHANGED <<now, files, pidFile, procs, pc, locals, exitCode, stdout,
                   stderr, runs, ticks, path>>
    /\ UNCHANGED calls

\* The report is removed (a test's setup, a cleaner of /tmp).
DeleteReport ==
    /\ envSteps < MaxEnv
    /\ ReportEventOK
    /\ report.exists
    /\ report' = NoReport
    /\ envSteps' = envSteps + 1
    /\ hist' = [hist EXCEPT !.curDeleted = TRUE, !.prevReport = TRUE,
                            !.waitDeleted = @ \/ pc \in WaitPcs]
    /\ UNCHANGED <<now, files, pidFile, procs, pc, locals, exitCode, stdout,
                   stderr, runs, ticks, path>>
    /\ UNCHANGED calls

\* The user saves (or creates) a watched file.
TouchFile(f) ==
    /\ envSteps < MaxEnv
    /\ FileEventOK
    /\ files' = [files EXCEPT ![f] = [exists |-> TRUE, mtime |-> now]]
    /\ envSteps' = envSteps + 1
    /\ hist' = [hist EXCEPT !.curFile = TRUE, !.prevFile = TRUE]
    /\ UNCHANGED <<now, report, pidFile, procs, pc, locals, exitCode, stdout,
                   stderr, runs, ticks, path>>
    /\ UNCHANGED calls

\* The user removes a watched file.
DeleteFile(f) ==
    /\ envSteps < MaxEnv
    /\ FileEventOK
    /\ files[f].exists
    /\ files' = [files EXCEPT ![f] = NoFile]
    /\ envSteps' = envSteps + 1
    /\ hist' = [hist EXCEPT !.curFile = TRUE, !.prevFile = TRUE]
    /\ UNCHANGED <<now, report, pidFile, procs, pc, locals, exitCode, stdout,
                   stderr, runs, ticks, path>>
    /\ UNCHANGED calls

\* A process (the watch process, or whatever holds the pid) exits.
ProcExit(p) ==
    /\ envSteps < MaxEnv
    /\ ProcEventOK
    /\ procs[p] # "none"
    /\ procs' = [procs EXCEPT ![p] = "none"]
    /\ envSteps' = envSteps + 1
    /\ UNCHANGED <<now, report, files, pidFile, pc, locals, exitCode, stdout,
                   stderr, runs, ticks, path, hist>>
    /\ UNCHANGED calls

Env ==
    \/ Tick
    \/ \E t \in Texts : WriteReport(t)
    \/ DeleteReport
    \/ \E f \in Files : TouchFile(f)
    \/ \E f \in Files : DeleteFile(f)
    \/ \E p \in Pids : ProcExit(p)

\* ------------------------------------------------------------ the program
\* sys.exit(code)
Exit(code) ==
    /\ pc' = "done"
    /\ exitCode' = code

\* An exception nothing catches: the interpreter prints the traceback to
\* standard error and the process ends with status 1.
Crash(what) ==
    /\ pc' = "done"
    /\ exitCode' = 1
    /\ stderr' = Append(stderr, "Traceback")

\* The report is removed between an os.path.exists that found it and the
\* os.path.getmtime that follows.
ReportVanishes ==
    /\ envSteps < MaxEnv
    /\ report.exists
    /\ report' = NoReport
    /\ envSteps' = envSteps + 1

\* The hook is invoked: main() starts; script_start_time = time.time().
Invoke ==
    /\ Idle
    /\ runs < MaxRuns
    /\ now <= StartClock + MaxTicks
    /\ runs' = runs + 1
    /\ pc' = "reg_check"
    /\ script_start_time' = now
    /\ haskell_files' = <<>>
    /\ scan_i' = 1
    /\ output_file_mtime' = 0
    /\ output_file_fresh' = FALSE
    /\ newer_haskell_files' = <<>>
    /\ file_updated' = FALSE
    /\ start_time' = 0
    /\ initial_mtime' = NoneMtime
    /\ output' = EmptyText
    /\ process_pid' = 0
    /\ exitCode' = -1
    /\ stdout' = <<>>
    /\ stderr' = <<>>
    /\ path' = "none"
    /\ hist' = [NoHist EXCEPT
                   !.prevFile = hist.curFile,
                   !.prevReport = hist.curWrites > 0 \/ hist.curDeleted,
                   !.prevExit = exitCode,
                   !.prevPath = path]
    /\ UNCHANGED <<now, report, files, pidFile, procs, ticks, envSteps>>
    /\ UNCHANGED calls

\* os.kill(pid, 0) succeeds; any OSError (no such process, or not permitted)
\* gives False.
IsProcessRunning(pid) == pid \in Pids /\ procs[pid] = "alive"

\* the test of line 47 turned round: return when the process is not running
AlreadyRunningInverted(pf, readable) ==
    /\ pf.kind = "pid"
    /\ readable
    /\ ~IsProcessRunning(pf.pid)

\* Whether start_ghcid_if_needed returns without starting anything: the PID
\* file exists, opens (no IOError), holds a number (no ValueError), and that
\* process is running.
AlreadyRunning(pf, readable) ==
    /\ pf.kind = "pid"
    /\ readable
    /\ IsProcessRunning(pf.pid)

\* What lines 43-50 find: no PID file; one that cannot be opened (IOError);
\* one that holds no number (ValueError); the identifier of a process that
\* os.kill reaches ("live"), may not signal ("denied": PermissionError, an
\* OSError) or does not find ("dead").
PidSeen(pf, readable) ==
    IF pf.kind = "absent" THEN "absent"
    ELSE IF ~readable THEN "unreadable"
    ELSE IF pf.kind = "garbage" THEN "garbage"
    ELSE IF IsProcessRunning(pf.pid) THEN "live"
    ELSE IF pf.pid \in Pids /\ procs[pf.pid] = "foreign" THEN "denied"
    ELSE "dead"

\* start_ghcid_if_needed, lines 39-50.
RegCheck ==
    /\ pc = "reg_check"
    /\ \E readable \in BOOLEAN :
          /\ pc' = IF AlreadyRunning(pidFile, readable) THEN "walk" ELSE "reg_spawn"
          /\ hist' = [hist EXCEPT !.pidSeen = PidSeen(pidFile, readable)]
    /\ UNCHANGED <<now, report, files, pidFile, procs, locals, exitCode,
                   stdout, stderr, runs, ticks, envSteps, path>>
    /\ UNCHANGED calls

FreePids == {p \in Pids : procs[p] = "none"}
\* the operating system hands out the next free identifier
NextPid == CHOOSE p \in FreePids : \A q \in FreePids : p <= q

\* print("Starting ghcid..."); subprocess.Popen(cmd, ...), which raises
\* when the program cannot be launched.
RegSpawn ==
    /\ pc = "reg_spawn"
    /\ stdout' = Append(stdout, "Starting ghcid...")
    /\ \E launched \in BOOLEAN :
          IF launched /\ FreePids # {}
          THEN /\ procs' = [procs EXCEPT ![NextPid] = "alive"]
               /\ process_pid' = NextPid
               /\ hist' = [hist EXCEPT !.spawned = @ + 1]
               /\ pc' = "reg_write"
               /\ UNCHANGED <<exitCode, stderr>>
          ELSE /\ Crash("Popen")
               /\ hist' = [hist EXCEPT !.fault = "Popen"]
               /\ UNCHANGED <<procs, process_pid>>
    /\ UNCHANGED <<now, report, files, pidFile, script_start_time,
                   haskell_files, scan_i, output_file_mtime, output_file_fresh,
                   newer_haskell_files, file_updated, start_time, initial_mtime,
                   output, runs, ticks, envSteps, path>>
    /\ UNCHANGED calls

\* with open(pid_file, 'w') as f: f.write(str(process.pid))
RegWritePid ==
    /\ pc = "reg_write"
    /\ \E writable \in BOOLEAN :
          IF writable
          THEN /\ pidFile' = PidFileOf(process_pid)
               /\ hist' = [hist EXCEPT !.pidWrites = @ + 1]
               /\ pc' = "walk"
               /\ UNCHANGED <<exitCode, stderr>>
          ELSE /\ Crash("open")
               /\ hist' = [hist EXCEPT !.fault = "open_pid_file"]
               /\ UNCHANGED pidFile
    /\ UNCHANGED <<now, report, files, procs, locals, stdout, runs, ticks,
                   envSteps, path>>
    /\ UNCHANGED calls

\* find_haskell_files(): the files the walk finds, in the walk's order.
\* Also lines 107-108.
Walk ==
    /\ pc = "walk"
    /\ stdout' = Append(stdout, "Running ghcid_feedback script...")
    /\ haskell_files' = SelectSeq(FileOrder, LAMBDA f : files[f].exists)
    /\ output_file_mtime' = 0
    /\ output_file_fresh' = FALSE
    /\ pc' = "out_stat"
    /\ UNCHANGED <<now, report, files, pidFile, procs, script_start_time,
                   scan_i, newer_haskell_files, file_updated, start_time,
                   initial_mtime, output, process_pid, exitCode, stderr, runs,
                   ticks, envSteps, path, hist>>
    /\ UNCHANGED calls

\* the comparison turned round: fresh when older than the window
IsFreshInverted(start, mtime) == start - mtime > FreshTicks

\* a report exactly the window old taken for fresh
IsFreshInclusive(start, mtime) == start - mtime <= FreshTicks

\* script_start_time - output_file_mtime < 3
IsFresh(start, mtime) == start - mtime < FreshTicks

\* Lines 110-114: if os.path.exists(output_file): output_file_mtime =
\* os.path.getmtime(output_file), which raises when the file is gone by
\* then; then the freshness test.
OutStat ==
    /\ pc = "out_stat"
    /\ \/ /\ ~report.exists
          /\ pc' = "scan"
          /\ hist' = [hist EXCEPT !.sawReport = FALSE]
          /\ UNCHANGED <<output_file_mtime, output_file_fresh, exitCode,
                         stderr, report, envSteps>>
       \/ /\ report.exists
          /\ output_file_mtime' = report.mtime
          /\ output_file_fresh' = IsFresh(script_start_time, report.mtime)
          /\ pc' = "scan"
          /\ hist' = [hist EXCEPT !.sawReport = TRUE]
          /\ UNCHANGED <<exitCode, stderr, report, envSteps>>
       \/ /\ ReportVanishes
          /\ Crash("getmtime")
          /\ hist' = [hist EXCEPT !.sawReport = TRUE,
                                  !.fault = "getmtime_report",
                                  !.curDeleted = TRUE, !.prevReport = TRUE,
                                  !.waitDeleted = @ \/ pc \in WaitPcs]
          /\ UNCHANGED <<output_file_mtime, output_file_fresh>>
    /\ UNCHANGED <<now, files, pidFile, procs, script_start_time,
                   haskell_files, scan_i, newer_haskell_files, file_updated,
                   start_time, initial_mtime, output, process_pid, stdout,
                   runs, ticks, path>>
    /\ UNCHANGED calls

\* if file_mtime > output_file_mtime
IsNewer(file_mtime, reference) == file_mtime > reference

\* Lines 117-121, one turn of the loop: if os.path.exists(haskell_file):
\* file_mtime = os.path.getmtime(haskell_file), which raises when the file
\* is gone by then; then the comparison with the report's time.
ScanFile ==
    /\ pc = "scan"
    /\ scan_i <= Len(haskell_files)
    /\ LET f == haskell_files[scan_i] IN
       \/ /\ ~files[f].exists
          /\ scan_i' = scan_i + 1
          /\ pc' = "scan"
          /\ UNCHANGED <<newer_haskell_files, hist, exitCode, stderr, files,
                         envSteps>>
       \/ /\ files[f].exists
          /\ newer_haskell_files' =
                 IF IsNewer(files[f].mtime, output_file_mtime)
                 THEN Append(newer_haskell_files, f)
                 ELSE newer_haskell_files
          /\ hist' = [hist EXCEPT !.scanned = @ \cup {f}]
          /\ scan_i' = scan_i + 1
          /\ pc' = "scan"
          /\ UNCHANGED <<exitCode, stderr, files, envSteps>>
       \/ /\ files[f].exists
          /\ envSteps < MaxEnv
          /\ files' = [files EXCEPT ![f] = NoFile]
          /\ envSteps' = envSteps + 1
          /\ Crash("getmtime")
          /\ hist' = [hist EXCEPT !.fault = "getmtime_file",
                                  !.curFile = TRUE, !.prevFile = TRUE]
          /\ UNCHANGED <<newer_haskell_files, scan_i>>
    /\ UNCHANGED <<now, report, pidFile, procs, script_start_time,
                   haskell_files, output_file_mtime, output_file_fresh,
                   file_updated, start_time, initial_mtime, output,
                   process_pid, stdout, runs, ticks, path>>
    /\ UNCHANGED calls

\* The for loop of line 117 ends.
ScanDone ==
    /\ pc = "scan"
    /\ scan_i > Len(haskell_files)
    /\ pc' = "gate"
    /\ UNCHANGED <<now, report, files, pidFile, procs, locals, exitCode,
                   stdout, stderr, runs, ticks, envSteps, path, hist>>
    /\ UNCHANGED calls

\* the decision without its early exit
GateNoEarlyExit(fresh, newer) == IF fresh THEN "fresh" ELSE "wait"

\* the decision with the early exit tested before the freshness
GateChangesFirst(fresh, newer) ==
    IF newer = <<>> THEN "nochange"
    ELSE IF fresh THEN "fresh"
    ELSE "wait"

\* if output_file_fresh: ... elif not newer_haskell_files: sys.exit(0)
\* and then: if not output_file_fresh: (the wait path)
GateDecision(fresh, newer) ==
    IF fresh THEN "fresh"
    ELSE IF newer = <<>> THEN "nochange"
    ELSE "wait"

\* Lines 123-135: the report of what was found, and the decision.
Gate ==
    /\ pc = "gate"
    /\ LET d == GateDecision(output_file_fresh, newer_haskell_files)
           found == stdout \o <<"Found">> \o
                      (IF newer_haskell_files # <<>> THEN <<"Newer files">> ELSE <<>>)
       IN
       /\ path' = d
       /\ IF d = "fresh"
          THEN /\ stdout' = Append(found, "Output file is fresh")
               /\ pc' = "read"
               /\ UNCHANGED exitCode
          ELSE IF d = "nochange"
          THEN /\ stdout' = Append(found, "No Haskell files newer than last output, exiting.")
               /\ Exit(0)
          ELSE /\ stdout' = found
               /\ pc' = "upd_stat"
               /\ UNCHANGED exitCode
    /\ UNCHANGED <<now, report, files, pidFile, procs, locals, stderr, runs,
                   ticks, envSteps, hist>>
    /\ UNCHANGED calls

\* the comparison turned round: updated when not after the start
UpdatedBeforeStart(file_mtime, start) == file_mtime <= start

\* if file_mtime >= script_start_time
UpdatedSinceStart(file_mtime, start) == file_mtime >= start

\* Lines 137-145: file_updated = False; if os.path.exists(output_file):
\* file_mtime = os.path.getmtime(output_file) (which raises when the file is
\* gone by then); if file_mtime >= script_start_time: file_updated = True;
\* if not file_updated: wait_for_output_update is entered, whose first
\* statements are start_time = time.time() and initial_mtime = None.
UpdStat ==
    /\ pc = "upd_stat"
    /\ \/ /\ report.exists
          /\ UpdatedSinceStart(report.mtime, script_start_time)
          /\ file_updated' = TRUE
          /\ pc' = "read"
          /\ UNCHANGED <<start_time, initial_mtime, hist, exitCode, stderr,
                         report, envSteps>>
       \/ /\ ~(report.exists /\ UpdatedSinceStart(report.mtime, script_start_time))
          /\ pc' = "w_init"
          /\ start_time' = now
          /\ initial_mtime' = NoneMtime
          /\ hist' = [hist EXCEPT !.waited = TRUE]
          /\ UNCHANGED <<file_updated, exitCode, stderr, report, envSteps>>
       \/ /\ ReportVanishes
          /\ Crash("getmtime")
          /\ hist' = [hist EXCEPT !.fault = "getmtime_report",
                                  !.curDeleted = TRUE, !.prevReport = TRUE,
                                  !.waitDeleted = @ \/ pc \in WaitPcs]
          /\ UNCHANGED <<file_updated, start_time, initial_mtime>>
    /\ UNCHANGED <<now, files, pidFile, procs, script_start_time,
                   haskell_files, scan_i, output_file_mtime, output_file_fresh,
                   newer_haskell_files, output, process_pid, stdout, runs,
                   ticks, path>>
    /\ UNCHANGED calls

\* ------------------------------------------------- wait_for_output_update
\* Lines 66-68: if os.path.exists(output_file): initial_mtime =
\* os.path.getmtime(output_file), which raises when the file is gone by then.
WInit ==
    /\ pc = "w_init"
    /\ \/ /\ ~report.exists
          /\ pc' = "w_poll"
          /\ UNCHANGED <<initial_mtime, exitCode, stderr, hist, report, envSteps>>
       \/ /\ report.exists
          /\ initial_mtime' = report.mtime
          /\ pc' = "w_poll"
          /\ UNCHANGED <<exitCode, stderr, hist, report, envSteps>>
       \/ /\ ReportVanishes
          /\ Crash("getmtime")
          /\ hist' = [hist EXCEPT !.fault = "getmtime_report",
                                  !.curDeleted = TRUE, !.prevReport = TRUE,
                                  !.waitDeleted = @ \/ pc \in WaitPcs]
          /\ UNCHANGED initial_mtime
    /\ UNCHANGED <<now, files, pidFile, procs, script_start_time,
                   haskell_files, scan_i, output_file_mtime, output_file_fresh,
                   newer_haskell_files, file_updated, start_time, output,
                   process_pid, stdout, runs, ticks, path>>
    /\ UNCHANGED calls

\* an unchanged timestamp taken for an advance
AdvancedOrEqual(initial, current) == initial = NoneMtime \/ current >= initial

\* if initial_mtime is None or current_mtime > initial_mtime
Advanced(initial, current) == initial = NoneMtime \/ current > initial

\* Lines 70-74 and 77, one turn of the loop up to its sleep: the loop's
\* test; if os.path.exists(output_file): current_mtime =
\* os.path.getmtime(output_file) (which raises when the file is gone by
\* then); return True on an advance; return False when the test fails.
WPoll ==
    /\ pc = "w_poll"
    /\ \/ /\ ~WaitGuard(now - start_time)
          /\ pc' = "timeout"
          /\ hist' = [hist EXCEPT !.waitResult = "false"]
          /\ UNCHANGED <<exitCode, stderr, report, envSteps>>
       \/ /\ WaitGuard(now - start_time)
          /\ report.exists
          /\ Advanced(initial_mtime, report.mtime)
          /\ pc' = "read"
          /\ hist' = [hist EXCEPT !.waitResult = "true"]
          /\ UNCHANGED <<exitCode, stderr, report, envSteps>>
       \/ /\ WaitGuard(now - start_time)
          /\ ~(report.exists /\ Advanced(initial_mtime, report.mtime))
          /\ pc' = "w_sleep"
          /\ UNCHANGED <<exitCode, stderr, hist, report, envSteps>>
       \/ /\ WaitGuard(now - start_time)
          /\ InEnvWindow
          /\ ReportVanishes
          /\ Crash("getmtime")
          /\ hist' = [hist EXCEPT !.fault = "getmtime_report",
                                  !.curDeleted = TRUE, !.prevReport = TRUE,
                                  !.waitDeleted = @ \/ pc \in WaitPcs]
    /\ UNCHANGED <<now, files, pidFile, procs, locals, stdout, runs, ticks,
                   path>>
    /\ UNCHANGED calls

\* a sleep of the freshness window in place of the polling interval
WSleepWindow ==
    /\ pc = "w_sleep"
    /\ now' = now + FreshTicks
    /\ pc' = "w_poll"
    /\ UNCHANGED <<report, files, pidFile, procs, locals, exitCode, stdout,
                   stderr, runs, ticks, envSteps, path, hist>>
    /\ UNCHANGED calls

\* time.sleep(0.1): one tick
WSleep ==
    /\ pc = "w_sleep"
    /\ now' = now + 1
    /\ pc' = "w_poll"
    /\ UNCHANGED <<report, files, pidFile, procs, locals, exitCode, stdout,
                   stderr, runs, ticks, envSteps, path, hist>>
    /\ UNCHANGED calls

\* print("Timeout waiting for ghcid output", file=sys.stderr); sys.exit(0)
TimeoutExit ==
    /\ pc = "timeout"
    /\ stderr' = Append(stderr, "Timeout waiting for ghcid output")
    /\ Exit(0)
    /\ UNCHANGED <<now, report, files, pidFile, procs, locals, stdout, runs,
                   ticks, envSteps, path, hist>>
    /\ UNCHANGED calls

\* ------------------------------------------------------ read and classify
\* read_output_file: f.read().strip(), or "" on an IOError
ReadOutput(exists, readable, text) ==
    IF exists /\ readable THEN Strip(text) ELSE EmptyText

\* open(output_file, 'w') in place of 'r': the read empties the report
ReadTruncating ==
    /\ pc = "read"
    /\ output' = EmptyText
    /\ report' = [exists |-> TRUE, mtime |-> now, text |-> EmptyText]
    /\ hist' = [hist EXCEPT !.readDone = TRUE, !.readOk = TRUE,
                            !.rawText = EmptyText]
    /\ pc' = "classify"
    /\ UNCHANGED <<now, files, pidFile, procs, script_start_time,
                   haskell_files, scan_i, output_file_mtime, output_file_fresh,
                   newer_haskell_files, file_updated, start_time,
                   initial_mtime, process_pid, exitCode, stdout, stderr, runs,
                   ticks, envSteps, path>>
    /\ UNCHANGED calls

\* output = read_output_file(output_file)
Read ==
    /\ pc = "read"
    /\ \E readable \in BOOLEAN :
          /\ output' = ReadOutput(report.exists, readable, report.text)
          /\ hist' = [hist EXCEPT !.readDone = TRUE,
                                  !.readOk = report.exists /\ readable,
                                  !.rawText = IF report.exists /\ readable
                                              THEN report.text ELSE EmptyText]
    /\ pc' = "classify"
    /\ UNCHANGED <<now, report, files, pidFile, procs, script_start_time,
                   haskell_files, scan_i, output_file_mtime, output_file_fresh,
                   newer_haskell_files, file_updated, start_time,
                   initial_mtime, process_pid, exitCode, stdout, stderr, runs,
                   ticks, envSteps, path>>
    /\ UNCHANGED calls

\* if re.match(r"^All good.*", output): print(output); sys.exit(0)
\* else: print("ghcid output:", file=sys.stderr);
\*       print(output, file=sys.stderr); sys.exit(2)
\* A printed "<output>" stands for the text of the variable output.
Classify ==
    /\ pc = "classify"
    /\ hist' = [hist EXCEPT !.classified = TRUE]
    /\ IF MatchSuccess(output)
       THEN /\ stdout' = Append(stdout, "<output>")
            /\ Exit(0)
            /\ UNCHANGED stderr
       ELSE /\ stderr' = stderr \o <<"ghcid output:", "<output>">>
            /\ Exit(2)
            /\ UNCHANGED stdout
    /\ UNCHANGED <<now, report, files, pidFile, procs, locals, runs, ticks,
                   envSteps, path>>
    /\ UNCHANGED calls

\* The steps of a run.
Step ==
    \/ RegCheck
    \/ RegSpawn
    \/ RegWritePid
    \/ Walk
    \/ OutStat
    \/ ScanFile
    \/ ScanDone
    \/ Gate
    \/ UpdStat
    \/ WInit
    \/ WPoll
    \/ WSleep
    \/ TimeoutExit
    \/ Read
    \/ Classify

Next == Invoke \/ Step \/ Env

Spec == Init /\ [][Next]_vars

\* A started run is scheduled until it exits; one invocation is followed
\* from every initial state of the file system and the process table.
FairSpec == FairInit /\ [][Next]_vars /\ WF_vars(Step)

\* ------------------------------------- concurrent start_ghcid_if_needed
\* Two invocations of the hook against one project: their calls of
\* start_ghcid_if_needed share the PID file and the process table and
\* interleave statement by statement; nothing else of the runs is followed.
runVars == <<now, report, files, pc, locals, exitCode, stdout, stderr, runs,
             ticks, path, hist>>

Ended(c) == calls[c].pc \in {"returned", "raised"}

\* The project is empty; the PID file and the process table are any.
RaceInit ==
    /\ Init
    /\ report = NoReport
    /\ files = [f \in Files |-> NoFile]

\* main() calls start_ghcid_if_needed (line 103).
Call(c) ==
    /\ calls[c].pc = "idle"
    /\ calls' = [calls EXCEPT ![c].pc = "check",
                              ![c].after = {o \in Callers : Ended(o)}]
    /\ UNCHANGED <<pidFile, procs, envSteps, runVars>>

\* Lines 39-50.
CallCheck(c) ==
    /\ calls[c].pc = "check"
    /\ \E readable \in BOOLEAN :
          calls' = [calls EXCEPT
              ![c].pc = IF AlreadyRunning(pidFile, readable)
                        THEN "returned" ELSE "spawn",
              ![c].seen = PidSeen(pidFile, readable),
              ![c].firstAlive =
                  \E o \in calls[c].after :
                      /\ calls[o].spawned = 1
                      /\ procs[calls[o].process_pid] = "alive"]
    /\ UNCHANGED <<pidFile, procs, envSteps, runVars>>

\* Lines 53-55; Popen raises when the program cannot be launched.
CallSpawn(c) ==
    /\ calls[c].pc = "spawn"
    /\ \E launched \in BOOLEAN :
          IF launched /\ FreePids # {}
          THEN /\ procs' = [procs EXCEPT ![NextPid] = "alive"]
               /\ calls' = [calls EXCEPT ![c].pc = "write",
                                         ![c].process_pid = NextPid,
                                         ![c].spawned = @ + 1]
          ELSE /\ calls' = [calls EXCEPT ![c].pc = "raised"]
               /\ UNCHANGED procs
    /\ UNCHANGED <<pidFile, envSteps, runVars>>

\* Lines 58-59; open raises when the PID file cannot be written.
CallWritePid(c) ==
    /\ calls[c].pc = "write"
    /\ \E writable \in BOOLEAN :
          IF writable
          THEN /\ pidFile' = PidFileOf(calls[c].process_pid)
               /\ calls' = [calls EXCEPT
                     ![c].pc = "returned",
                     ![c].pidWrites = @ + 1,
                     ![c].writeSeq =
                         1 + Cardinality({o \in Callers : calls[o].pidWrites > 0})]
          ELSE /\ calls' = [calls EXCEPT ![c].pc = "raised"]
               /\ UNCHANGED pidFile
    /\ UNCHANGED <<procs, envSteps, runVars>>

\* A process exits while the calls are under way or between them.
RaceProcExit(p) ==
    /\ envSteps < MaxEnv
    /\ procs[p] # "none"
    /\ procs' = [procs EXCEPT ![p] = "none"]
    /\ envSteps' = envSteps + 1
    /\ UNCHANGED <<pidFile, calls, runVars>>

RaceNext ==
    \/ \E c \in Callers : Call(c)
    \/ \E c \in Callers : CallCheck(c)
    \/ \E c \in Callers : CallSpawn(c)
    \/ \E c \in Callers : CallWritePid(c)
    \/ \E p \in Pids : RaceProcExit(p)

RaceSpec == RaceInit /\ [][RaceNext]_vars

\* ------------------------------------------------------------------ claims
Done == pc = "done"
Printed(stream, line) == \E i \in 1..Len(stream) : stream[i] = line
TimeoutLine == "Timeout waiting for ghcid output"
\* The run has passed the decision of lines 128-135.
Decided == path # "none"

\* C1: once a run is in wait_for_output_update, the clock is never more
\* than the timeout plus one polling interval (one tick) past the
\* function's start, whatever the watch process does, and the run then
\* terminates.
C1_WaitBounded ==
    /\ [](pc \in WaitPcs \cup {"timeout"} =>
              now - start_time <= TimeoutTicks + 1)
    /\ [](hist.waited => <>Done)

\* a run that waited the whole timeout for a report that never came
C1_Witness ==
    /\ pc = "timeout"
    /\ now - start_time = TimeoutTicks
    /\ ~report.exists
    /\ hist.curWrites = 0

\* C2: a run that finds the report not fresh and no watched file newer than
\* the report's time exits 0 at the decision itself: it has not entered the
\* wait loop and has not read the report.
C2_NoChangeExit ==
    (Decided /\ ~output_file_fresh /\ newer_haskell_files = <<>>) =>
        /\ Done
        /\ exitCode = 0
        /\ path = "nochange"
        /\ ~hist.waited
        /\ ~hist.readDone

\* an old report, a watched file that is not newer, exit 0 without a read
C2_Witness ==
    /\ Done
    /\ path = "nochange"
    /\ report.exists
    /\ haskell_files # <<>>
    /\ exitCode = 0

\* C3: a run that found the report and found it within the freshness window
\* of the invocation time goes from the decision straight to reading and
\* classifying: it takes neither the early exit nor the wait loop, whether
\* or not a watched file is newer than the report.
C3_FreshReads ==
    (/\ Decided
     /\ hist.sawReport
     /\ script_start_time - output_file_mtime < FreshTicks) =>
        /\ path = "fresh"
        /\ pc \in {"read", "classify", "done"}
        /\ ~hist.waited
        /\ Done => hist.classified

\* a fresh report with no newer watched file was classified
C3_Witness ==
    /\ Done
    /\ path = "fresh"
    /\ haskell_files # <<>>
    /\ newer_haskell_files = <<>>
    /\ hist.classified

\* C4 (as stated): a run that finds the report not fresh, and a watched file
\* newer than it or (with no report) a watched file at all, takes the wait
\* path, and classifies only after it saw the report's time at or after the
\* invocation time or the wait loop returned true.
C4_WaitPath ==
    (/\ Decided
     /\ ~output_file_fresh
     /\ \/ newer_haskell_files # <<>>
        \/ ~hist.sawReport /\ hist.scanned # {}) =>
        /\ path = "wait"
        /\ hist.classified => (file_updated \/ hist.waitResult = "true")

\* C5 (as stated): a classified run exits 0 with the content on standard
\* output exactly when the report's text starts with the marker, and exits
\* 2 with the content on standard error otherwise.
C5_RawPrefix ==
    hist.classified =>
        IF StartsWith(hist.rawText, AllGoodMarker)
        THEN exitCode = 0 /\ Printed(stdout, "<output>")
        ELSE exitCode = 2 /\ Printed(stderr, "<output>")

\* C5 (amended): ... exactly when the report's text, stripped of leading
\* and trailing whitespace, starts with the marker; the content printed is
\* the stripped text (empty for a report that cannot be read).
C5_StrippedPrefix ==
    hist.classified =>
        /\ output = (IF hist.readOk THEN Strip(hist.rawText) ELSE EmptyText)
        /\ IF StartsWith(Strip(hist.rawText), AllGoodMarker)
           THEN exitCode = 0 /\ Printed(stdout, "<output>") /\ ~Printed(stderr, "<output>")
           ELSE exitCode = 2 /\ Printed(stderr, "<output>") /\ ~Printed(stdout, "<output>")

\* a report whose marker follows leading whitespace was classified a success
C5_Witness ==
    /\ hist.classified
    /\ hist.rawText = PaddedOkText
    /\ exitCode = 0

\* C6 (as stated): exit 2 only with changed inputs detected and a
\* non-success content; a finished run that detected no changed input
\* exits 0.
C6_ExitCodes ==
    /\ exitCode = 2 =>
           newer_haskell_files # <<>> /\ ~StartsWith(output, AllGoodMarker)
    /\ (Done /\ Decided /\ newer_haskell_files = <<>>) => exitCode = 0

\* C6 (amended): exit 2 only when the report was fresh or changed inputs
\* were detected, and the content read is not a success; a finished run
\* that found the report not fresh and no changed input exits 0.
C6_ExitCodesFresh ==
    /\ exitCode = 2 =>
           /\ output_file_fresh \/ newer_haskell_files # <<>>
           /\ hist.classified
           /\ ~StartsWith(output, AllGoodMarker)
    /\ (Done /\ Decided /\ ~output_file_fresh /\ newer_haskell_files = <<>>) =>
           exitCode = 0

\* a fresh failure report and no changed input: exit 2
C6_Witness ==
    /\ exitCode = 2
    /\ output_file_fresh
    /\ newer_haskell_files = <<>>
    /\ output = ErrText

\* C7: a run that entered the wait (changed inputs, report not fresh) and
\* during whose wait the report was neither written after the baseline read
\* nor removed prints the timeout diagnostic to standard error and exits 0,
\* without reading or classifying the report.
C7_SoftTimeout ==
    (/\ Done
     /\ hist.waited
     /\ hist.pollWrite = "no"
     /\ ~hist.waitDeleted) =>
        /\ exitCode = 0
        /\ Printed(stderr, TimeoutLine)
        /\ ~hist.readDone
        /\ ~hist.classified
        /\ path = "wait"
        /\ newer_haskell_files # <<>>
        /\ ~output_file_fresh

\* a stale report that stayed as it was: timeout, exit 0
C7_Witness ==
    /\ Done
    /\ hist.waited
    /\ report.exists
    /\ hist.curWrites = 0
    /\ Printed(stderr, TimeoutLine)
    /\ exitCode = 0

\* C8 (as stated): every finished run has exit code 0 or 2.
C8_ExitZeroOrTwo == Done => exitCode \in {0, 2}

ReportVerdict ==
    /\ hist.classified
    /\ ~Printed(stderr, TimeoutLine)
    /\ hist.readOk =>
          /\ hist.rawText = report.text
          /\ report.text = OkText =>
                 exitCode = 0 /\ Printed(stdout, "<output>") /\ output = OkText
          /\ report.text = ErrText =>
                 exitCode = 2 /\ Printed(stderr, "<output>") /\ output = ErrText

\* C10: a run on the wait path (changed inputs, report not
\* fresh) during whose polling, before the timeout, the watch process wrote
\* the report (its one write, the report not removed) ends with that
\* report's verdict.
C10_WriteBeforeTimeout ==
    (/\ Done
     /\ path = "wait"
     /\ hist.pollWrite \in {"polled", "lastsleep"}
     /\ hist.curWrites = 1
     /\ ~hist.curDeleted) => ReportVerdict

\* C11, for a write that falls before the loop's first poll (a write that
\* falls during the polling is C10's): on the wait path (changed inputs,
\* report not fresh), a report that the watch process wrote after the
\* invocation started, the check of lines 138-141 and the baseline read of
\* lines 67-68 included, and that was not removed since, brings the run to
\* classification: such a run never arrives at the timeout exit.
C11_WriteReachesClassification ==
    (/\ path = "wait"
     /\ ~Idle
     /\ hist.curWrites > 0
     /\ ~hist.curDeleted
     /\ hist.pollWrite = "no") => pc # "timeout"

\* C12: a poll of the wait loop (the report not removed under it) returns
\* true exactly when the timeout has not elapsed and it finds the report
\* with a timestamp strictly greater than the one read at the start of the
\* function, or finds the report at all when there was none at the start;
\* the loop returns false exactly when the timeout has elapsed; otherwise it
\* sleeps and polls again.
C12_WaitReturns ==
    [][(pc = "w_poll" /\ pc' # "w_poll" /\ report' = report) =>
          LET inTime == now - start_time < TimeoutTicks
              advance == /\ report.exists
                         /\ \/ initial_mtime = NoneMtime
                            \/ report.mtime > initial_mtime
          IN  /\ (pc' = "read") <=> (inTime /\ advance)
              /\ (pc' = "timeout") <=> ~inTime
              /\ (pc' = "w_sleep") <=> (inTime /\ ~advance)
              /\ pc' = "read" => hist'.waitResult = "true"
              /\ pc' = "timeout" => hist'.waitResult = "false"
              /\ pc' = "w_sleep" => hist'.waitResult = "none"]_vars

\* a report that was not there at the start of the function was found by a
\* later poll, which returned true
C12_Witness ==
    /\ pc = "read"
    /\ hist.waitResult = "true"
    /\ initial_mtime = NoneMtime
    /\ now > start_time

\* C13: a call of start_ghcid_if_needed spawns at most once and writes the
\* PID file at most once; when the PID file holds the identifier of a live
\* process the call spawns nothing and leaves the PID file as it is; when
\* the PID file is absent, holds a dead process's identifier or holds no
\* number, the call spawns exactly one watch process and leaves its
\* identifier in the PID file, and the run goes on.
C13_SpawnOnce ==
    /\ hist.spawned <= 1
    /\ hist.pidWrites <= 1
    /\ hist.pidSeen = "live" =>
           /\ hist.spawned = 0
           /\ hist.pidWrites = 0
           /\ pc \notin {"reg_spawn", "reg_write"}
    /\ (hist.pidSeen \in {"absent", "dead", "garbage"}
            /\ pc \notin {"reg_spawn", "reg_write"}) =>
           /\ hist.spawned = 1
           /\ hist.pidWrites = 1
           /\ hist.fault \notin {"Popen", "open_pid_file"}
           /\ pc = "walk" => /\ pidFile = PidFileOf(process_pid)
                             /\ procs[process_pid] = "alive"

\* C14: when os.kill on the identifier in the PID file fails with
\* permission-denied, the call of start_ghcid_if_needed spawns nothing and
\* leaves the PID file as it is.
C14_DeniedIsAlive ==
    hist.pidSeen = "denied" =>
        /\ hist.spawned = 0
        /\ hist.pidWrites = 0
        /\ pc \notin {"reg_spawn", "reg_write"}

\* C15: a report that vanishes or cannot be read during a run is taken for
\* no report: no run ends by the error of a timestamp read of the report
\* (lines 111, 139, 68, 72), and a content read that fails gives the empty
\* text and goes on to classification.
C15_VanishHandled ==
    /\ hist.fault # "getmtime_report"
    /\ (hist.readDone /\ ~hist.readOk) =>
           /\ output = EmptyText
           /\ pc \in {"classify", "done"}
           /\ Done => exitCode = 2

\* C17: no step of a run creates, writes or removes the report or a watched
\* file: each change of them is a change by the environment; the PID file
\* changes only by the write of lines 58-59, at most once in a run.
C17_ReadOnlyObserver ==
    /\ [](hist.pidWrites <= 1)
    /\ [][/\ (report' # report \/ files' # files) => envSteps' = envSteps + 1
          /\ pidFile' # pidFile =>
                 /\ pc = "reg_write"
                 /\ hist'.pidWrites = hist.pidWrites + 1
                 /\ pidFile' = PidFileOf(process_pid)]_vars

\* a run that wrote the PID file and read the report ended with the report
\* and the watched files as they were when the model started
C17_Witness ==
    /\ Done
    /\ hist.pidWrites = 1
    /\ hist.readOk
    /\ report.exists
    /\ envSteps = 0
    /\ \E f \in Files : files[f].exists

\* C18: when the loop of lines 117-121 has ended (the watched files as they
\* were when the run started), the changed inputs are exactly the
\* discovered files whose modification time strictly exceeds the reference
\* time, the report's modification time or 0 when line 110 found no
\* report, and with no report every discovered file is a changed input.
C18_ChangedInputs ==
    (pc = "gate" /\ ~hist.curFile) =>
        LET reference == IF hist.sawReport THEN output_file_mtime ELSE 0
        IN  /\ hist.sawReport => output_file_mtime = report.mtime
            /\ newer_haskell_files =
                   SelectSeq(haskell_files,
                             LAMBDA f : files[f].mtime > reference)
            /\ ~hist.sawReport => newer_haskell_files = haskell_files

\* C19: lines 110-114 find the report fresh exactly when it exists and its
\* age at the invocation is below the window; a report exactly the window
\* old is not fresh and an absent report is not fresh.
C19_FreshIff ==
    [][(pc = "out_stat" /\ pc' = "scan") =>
          (output_file_fresh' <=>
               (report.exists /\ script_start_time - report.mtime < FreshTicks))]_vars

\* a report exactly the window old was found not fresh
C19_Witness ==
    /\ pc = "scan"
    /\ hist.sawReport
    /\ script_start_time - output_file_mtime = FreshTicks
    /\ ~output_file_fresh

\* C20: a run that has read the report found it fresh at line 113, or saw
\* its timestamp at or after the invocation time at line 140, or had the
\* wait loop return true; and exit code 2 comes only from a report that was
\* found fresh or was written since the run started.
C20_NoStaleReport ==
    /\ hist.readDone =>
           \/ output_file_fresh
           \/ file_updated
           \/ hist.waitResult = "true"
    /\ exitCode = 2 => (output_file_fresh \/ hist.curWrites > 0)

\* a stale failure report was overwritten during the wait, and the new
\* report gave exit 2
C20_Witness ==
    /\ Done
    /\ exitCode = 2
    /\ hist.sawReport
    /\ ~output_file_fresh
    /\ hist.waitResult = "true"
    /\ initial_mtime # NoneMtime
    /\ hist.curWrites = 1

\* The call whose write of the PID file was the last.
LastWriter ==
    CHOOSE c \in Callers :
        \A o \in Callers : calls[o].writeSeq <= calls[c].writeSeq

\* C16 (as stated): of two invocations, each spawns at most once; when both
\* calls have ended and one of them wrote the PID file, the file holds the
\* identifier of the process spawned by the last writer; and a call that
\* began after the other had returned, with the process the other spawned
\* still running, spawns nothing.
C16_Concurrent ==
    /\ \A c \in Callers : calls[c].spawned <= 1
    /\ ((\A c \in Callers : Ended(c)) /\ (\E c \in Callers : calls[c].pidWrites > 0)) =>
           /\ pidFile = PidFileOf(calls[LastWriter].process_pid)
           /\ calls[LastWriter].spawned = 1
    /\ \A c \in Callers :
           (/\ calls[c].pc \notin {"idle", "check"}
            /\ calls[c].firstAlive
            /\ \E o \in calls[c].after : calls[o].pc = "returned") =>
               /\ calls[c].pc = "returned"
               /\ calls[c].spawned = 0

\* C16 (amended): ... and a call that began after the other had ended, the
\* other having written its process's identifier to the PID file, with that
\* process still running and the PID file readable, spawns nothing.
C16_ConcurrentRecorded ==
    /\ \A c \in Callers : calls[c].spawned <= 1
    /\ ((\A c \in Callers : Ended(c)) /\ (\E c \in Callers : calls[c].pidWrites > 0)) =>
           /\ pidFile = PidFileOf(calls[LastWriter].process_pid)
           /\ calls[LastWriter].spawned = 1
    /\ \A c \in Callers :
           (/\ calls[c].pc \notin {"idle", "check"}
            /\ calls[c].firstAlive
            /\ \E o \in calls[c].after : calls[o].pidWrites = 1
            /\ calls[c].seen # "unreadable") =>
               /\ calls[c].pc = "returned"
               /\ calls[c].spawned = 0
               /\ calls[c].seen = "live"

\* both calls found no PID file before either wrote one, both spawned, and
\* two watch processes run; the PID file names the one of the last writer
C16_Witness ==
    /\ \A c \in Callers :
           /\ calls[c].pc = "returned"
           /\ calls[c].seen = "absent"
           /\ calls[c].after = {}
           /\ calls[c].spawned = 1
           /\ procs[calls[c].process_pid] = "alive"
    /\ calls["a"].process_pid # calls["b"].process_pid
    /\ pidFile = PidFileOf(calls[LastWriter].process_pid)

====
